---- MODULE Spec2Model ----
(***************************************************************************)
(* Model of src/trading_agent.py: the HedgeFundTradingAgent run loop, its  *)
(* signal generation, trade execution and position monitoring, and the     *)
(* in-memory ledger self.positions.                                        *)
(*                                                                         *)
(* Numbers.  Prices are integers.  Python floats are modelled as exact     *)
(* rationals [num, den]; den = 0 is NaN.  stop_loss and take_profit are    *)
(* kept in hundredths of a price unit (close * 98, close * 103), so the    *)
(* comparisons of monitor_positions are exact.  Python's None is the       *)
(* integer None below.                                                     *)
(***************************************************************************)
EXTENDS Integers, Sequences, FiniteSets, TLC

\* ------------------------------------------------------------------ bounds
MaxExtra == 2            \* candles in a fetched series beyond the 50 needed

\* ------------------------------------------------------- program constants
FastWindow == 20         \* rolling(window=20)
SlowWindow == 50         \* rolling(window=50)
RsiWindow == 14          \* rolling(window=14)
MinCandles == 50         \* len(df) < 50
StopLossPct == 98        \* close * 0.98
TakeProfitPct == 103     \* close * 1.03
RiskPercent == 1         \* risk_percentage default 0.01
Leverage == 10           \* leverage default 10
None == -1               \* Python's None where a price is expected

\* config['trading_pairs']: a configuration with two pairs
trading_pairs == <<"BTC/USDT", "ETH/USDT">>

\* ----------------------------------------------------------------- floats
NaN == [num |-> 0, den |-> 0]
Rat(n, d) == [num |-> n, den |-> d]
IsNaN(x) == x.den = 0
\* Comparisons of floats; any comparison with NaN is False.  Denominators
\* are positive (window lengths, sums of absolute deltas).
FloatLe(a, b) == ~IsNaN(a) /\ ~IsNaN(b) /\ a.num * b.den <= b.num * a.den
FloatLt(a, b) == ~IsNaN(a) /\ ~IsNaN(b) /\ a.num * b.den < b.num * a.den
FloatGe(a, b) == FloatLe(b, a)
FloatGt(a, b) == FloatLt(b, a)

\* ------------------------------------------------- calculate_indicators
RECURSIVE SumRange(_, _, _)
SumRange(f, lo, hi) == IF lo > hi THEN 0 ELSE f[hi] + SumRange(f, lo, hi - 1)

\* df['close'].rolling(window=w).mean() at row i: NaN on the first w-1 rows
RollingMean(f, w, i) ==
    IF i < w THEN NaN ELSE Rat(SumRange(f, i - w + 1, i), w)

\* delta = df['close'].diff(); row 1 is NaN, and where() turns NaN into 0
Gain(close, i) ==
    IF i > 1 /\ close[i] - close[i - 1] > 0 THEN close[i] - close[i - 1] ELSE 0
Loss(close, i) ==
    IF i > 1 /\ close[i] - close[i - 1] < 0 THEN close[i - 1] - close[i] ELSE 0

\* 100 - 100 / (1 + gain / loss): NaN before the window fills and when
\* gain = loss = 0 (0/0); 100 when loss = 0 < gain (gain/0 = inf)
Rsi(close, i) ==
    IF i < RsiWindow THEN NaN
    ELSE LET g == SumRange([k \in 1..Len(close) |-> Gain(close, k)],
                           i - RsiWindow + 1, i)
             l == SumRange([k \in 1..Len(close) |-> Loss(close, k)],
                           i - RsiWindow + 1, i)
         IN  IF g + l = 0 THEN NaN ELSE Rat(100 * g, g + l)

\* The annotated frame: one row per candle, same length and order.
calculate_indicators(close) ==
    [i \in 1..Len(close) |->
        [close  |-> close[i],
         sma_20 |-> RollingMean(close, FastWindow, i),
         sma_50 |-> RollingMean(close, SlowWindow, i),
         rsi    |-> Rsi(close, i)]]

\* --------------------------------------------------------- generate_signals
\* NoSignal with the two levels initialised to 0
NoSignal_ZeroLevels == [buy |-> FALSE, sell |-> FALSE, stop_loss |-> 0, take_profit |-> 0]

NoSignal == [buy |-> FALSE, sell |-> FALSE, stop_loss |-> None, take_profit |-> None]

\* Bullish with the previous candle's equality left out
Bullish_Strict(prev_row, last_row) ==
    /\ FloatLt(prev_row.sma_20, prev_row.sma_50)
    /\ FloatGt(last_row.sma_20, last_row.sma_50)

Bullish(prev_row, last_row) ==
    /\ FloatLe(prev_row.sma_20, prev_row.sma_50)
    /\ FloatGt(last_row.sma_20, last_row.sma_50)

Bearish(prev_row, last_row) ==
    /\ FloatGe(prev_row.sma_20, prev_row.sma_50)
    /\ FloatLt(last_row.sma_20, last_row.sma_50)

\* generate_signals with the levels set on the bearish branch too
generate_signals_SellLevels(df) ==
    IF Len(df) < MinCandles THEN NoSignal
    ELSE LET last_row == df[Len(df)]
             prev_row == df[Len(df) - 1]
         IN  IF Bullish(prev_row, last_row)
             THEN [buy |-> TRUE, sell |-> FALSE,
                   stop_loss |-> last_row.close * StopLossPct,
                   take_profit |-> last_row.close * TakeProfitPct]
             ELSE IF Bearish(prev_row, last_row)
             THEN [buy |-> FALSE, sell |-> TRUE,
                   stop_loss |-> last_row.close * StopLossPct,
                   take_profit |-> last_row.close * TakeProfitPct]
             ELSE NoSignal

generate_signals(df) ==
    IF Len(df) < MinCandles THEN NoSignal
    ELSE LET last_row == df[Len(df)]
             prev_row == df[Len(df) - 1]
         IN  IF Bullish(prev_row, last_row)
             THEN [buy |-> TRUE, sell |-> FALSE,
                   stop_loss |-> last_row.close * StopLossPct,
                   take_profit |-> last_row.close * TakeProfitPct]
             ELSE IF Bearish(prev_row, last_row)
             THEN [NoSignal EXCEPT !.sell = TRUE]
             ELSE NoSignal

\* ------------------------------------------------------- self.positions
\* A Python dict: a sequence of entries in insertion order, keys unique.
\* Assigning to a present key replaces the value in place; assigning to an
\* absent key appends; del removes the entry.
Has(d, s) == \E i \in 1..Len(d) : d[i].symbol = s
Get(d, s) == d[CHOOSE i \in 1..Len(d) : d[i].symbol = s]
Put(d, s, rec) ==
    IF Has(d, s)
    THEN [i \in 1..Len(d) |-> IF d[i].symbol = s THEN rec ELSE d[i]]
    ELSE Append(d, rec)
Del(d, s) == SelectSeq(d, LAMBDA e : e.symbol # s)
Keys(d) == {d[i].symbol : i \in 1..Len(d)}

\* -------------------------------------------------- external collaborators
\* What the exchange answers to one call.  Fail: the call raises an
\* Exception.  A ticker's 'last' and an order's 'price' may be None (ccxt
\* leaves a field None when the exchange does not report it).
Fail == -2
\* The answer of a call that is never made
Unasked == -3
Balances == {1000}
TickerPrices == {97, 98, 100, 103}
BalanceOutcomes == {Fail} \cup Balances
TickerOutcomes == {Fail, None, 0} \cup TickerPrices
BuyOutcomes == {Fail, 0}
SellOutcomes == {Fail, None, 100}
\* Where a KeyboardInterrupt (SIGINT) is raised in a call of execute_trade:
\* not at all, before the order is sent, or after the order call returned
\* and before the next statement.
IntrPoints == {"none", "before_order", "after_order"}

\* The answers to the calls of one execute_trade.  A call that is not made,
\* because an earlier one raised or the branch does not make it, has no
\* answer: its field is Unasked.
TradeEnv == [balance : BalanceOutcomes \cup {Unasked},
             ticker : TickerOutcomes \cup {Unasked},
             buy : BuyOutcomes \cup {Unasked},
             sell : SellOutcomes \cup {Unasked}, intr : IntrPoints]
QuietEnv == [balance |-> Unasked, ticker |-> Unasked, buy |-> Unasked,
             sell |-> Unasked, intr |-> "none"]
BuyEnvs ==
    {e \in TradeEnv :
        /\ e.sell = Unasked
        /\ (e.balance = Unasked) = (e.intr = "before_order")
        /\ (e.ticker = Unasked) = (e.balance \in {Unasked, Fail})
        /\ (e.buy = Unasked) = (e.ticker \in {Unasked, Fail, None, 0})
        /\ e.buy \in {Unasked, Fail} => e.intr # "after_order"}
SellEnvs ==
    {e \in TradeEnv :
        /\ e.balance = Unasked /\ e.ticker = Unasked /\ e.buy = Unasked
        /\ (e.sell = Unasked) = (e.intr = "before_order")
        /\ e.sell = Fail => e.intr # "after_order"}

\* ------------------------------------------------------------ execute_trade
\* The result of one call: the ledger after it, the orders the exchange
\* accepted, what the call raised to its caller ("none" when it returned),
\* and what it logged.
TradeResult(pos, orders, raised, logged) ==
    [positions |-> pos, orders |-> orders, raised |-> raised, logged |-> logged]

Order(side, symbol, amount) == [side |-> side, symbol |-> symbol, amount |-> amount]

\* NewPosition with the side recorded as short
NewPosition_Short(symbol, entry_price, signal, position_size) ==
    [symbol |-> symbol, entry_price |-> entry_price,
     stop_loss |-> signal.stop_loss, take_profit |-> signal.take_profit,
     size |-> position_size, side |-> "short"]

\* NewPosition with the two levels swapped
NewPosition_Swapped(symbol, entry_price, signal, position_size) ==
    [symbol |-> symbol, entry_price |-> entry_price,
     stop_loss |-> signal.take_profit, take_profit |-> signal.stop_loss,
     size |-> position_size, side |-> "long"]

\* lines 137-144: the record stored for a new position (the timestamp,
\* which nothing reads, is left out)
NewPosition(symbol, entry_price, signal, position_size) ==
    [symbol |-> symbol, entry_price |-> entry_price,
     stop_loss |-> signal.stop_loss, take_profit |-> signal.take_profit,
     size |-> position_size, side |-> "long"]

\* OpenLong with the position stored before the order is placed
OpenLong_StoreFirst(pos, symbol, signal, env) ==
    IF env.intr = "before_order"
    THEN TradeResult(pos, <<>>, "KeyboardInterrupt", "none")
    ELSE IF env.balance = Fail
    THEN TradeResult(pos, <<>>, "none", "failed")
    ELSE IF env.ticker \in {Fail, None, 0}
    THEN TradeResult(pos, <<>>, "none", "failed")
    ELSE LET entry_price == env.ticker
             position_size == Rat(env.balance * RiskPercent * Leverage,
                                  100 * entry_price)
             order == Order("buy", symbol, position_size)
             stored == Put(pos, symbol,
                           NewPosition(symbol, entry_price, signal, position_size))
         IN  IF env.buy = Fail
             THEN TradeResult(stored, <<>>, "none", "failed")
             ELSE IF env.intr = "after_order"
             THEN TradeResult(stored, <<order>>, "KeyboardInterrupt", "none")
             ELSE TradeResult(stored, <<order>>, "none", "opened")

\* lines 118-146: the buy branch
OpenLong(pos, symbol, signal, env) ==
    IF env.intr = "before_order"
    THEN TradeResult(pos, <<>>, "KeyboardInterrupt", "none")
    ELSE IF env.balance = Fail
    THEN TradeResult(pos, <<>>, "none", "failed")
    ELSE IF env.ticker \in {Fail, None, 0}   \* raises, TypeError, ZeroDivisionError
    THEN TradeResult(pos, <<>>, "none", "failed")
    ELSE LET entry_price == env.ticker
             position_size == Rat(env.balance * RiskPercent * Leverage,
                                  100 * entry_price)
             order == Order("buy", symbol, position_size)
         IN  IF env.buy = Fail
             THEN TradeResult(pos, <<>>, "none", "failed")
             ELSE IF env.intr = "after_order"
             THEN TradeResult(pos, <<order>>, "KeyboardInterrupt", "none")
             ELSE TradeResult(
                    Put(pos, symbol,
                        NewPosition(symbol, entry_price, signal, position_size)),
                    <<order>>, "none", "opened")

\* lines 149-163: the sell branch, taken when symbol is in self.positions
CloseLong(pos, symbol, env) ==
    LET position == Get(pos, symbol)
        order == Order("sell", symbol, position.size)
    IN  IF env.intr = "before_order"
        THEN TradeResult(pos, <<>>, "KeyboardInterrupt", "none")
        ELSE IF env.sell = Fail
        THEN TradeResult(pos, <<>>, "none", "failed")
        ELSE IF env.intr = "after_order"
        THEN TradeResult(pos, <<order>>, "KeyboardInterrupt", "none")
        ELSE IF env.sell = None   \* exit_price - entry_price: TypeError
        THEN TradeResult(pos, <<order>>, "none", "failed")
        ELSE TradeResult(Del(pos, symbol), <<order>>, "none", "closed")

\* execute_trade with the sell branch entered without the ledger test:
\* self.positions[symbol] raises KeyError, which line 165 catches and logs
execute_trade_NoGuard(pos, symbol, signal, env) ==
    IF "buy" \notin DOMAIN signal
    THEN TradeResult(pos, <<>>, "none", "failed")
    ELSE IF signal.buy
    THEN OpenLong(pos, symbol, signal, env)
    ELSE IF signal.sell
    THEN IF Has(pos, symbol) THEN CloseLong(pos, symbol, env)
         ELSE TradeResult(pos, <<>>, "none", "failed")
    ELSE TradeResult(pos, <<>>, "none", "none")

\* signal is a dict: signal['buy'] raises KeyError when the key is absent,
\* and the except clause of line 165 catches every Exception.
execute_trade(pos, symbol, signal, env) ==
    IF "buy" \notin DOMAIN signal
    THEN TradeResult(pos, <<>>, "none", "failed")
    ELSE IF signal.buy
    THEN OpenLong(pos, symbol, signal, env)
    ELSE IF signal.sell /\ Has(pos, symbol)
    THEN CloseLong(pos, symbol, env)
    ELSE TradeResult(pos, <<>>, "none", "none")

\* -------------------------------------------------------- monitor_positions
\* What happens while one entry of the snapshot is evaluated: the ticker's
\* answer, the answer to the market sell of a forced exit, and where a
\* KeyboardInterrupt arrives ("before_order": while the price is fetched and
\* compared; "after_order": right after the sell order call returned).
MonitorEnv == [ticker : {Unasked, Fail, None} \cup TickerPrices,
               sell : SellOutcomes \cup {Unasked}, intr : IntrPoints]

\* StopLossHit with the stop level itself left out
StopLossHit_Strict(position, current_price) ==
    \/ position.side = "long" /\ current_price * 100 < position.stop_loss
    \/ position.side = "short" /\ current_price * 100 > position.stop_loss

\* lines 176-177 and 182-183; prices in hundredths
StopLossHit(position, current_price) ==
    \/ position.side = "long" /\ current_price * 100 <= position.stop_loss
    \/ position.side = "short" /\ current_price * 100 >= position.stop_loss
TakeProfitHit(position, current_price) ==
    \/ position.side = "long" /\ current_price * 100 >= position.take_profit
    \/ position.side = "short" /\ current_price * 100 <= position.take_profit

\* the signal of lines 179 and 185: a dict with the one key 'sell'
ForcedExit == [sell |-> TRUE]

\* Trigger with the take-profit test first
Trigger_TakeProfitFirst(position, current_price) ==
    IF TakeProfitHit(position, current_price) THEN "take_profit"
    ELSE IF StopLossHit(position, current_price) THEN "stop_loss"
    ELSE "none"

\* The branch taken for one entry: "stop_loss", "take_profit" or "none"
Trigger(position, current_price) ==
    IF StopLossHit(position, current_price) THEN "stop_loss"
    ELSE IF TakeProfitHit(position, current_price) THEN "take_profit"
    ELSE "none"

MonitorResult(pos, orders, raised, evaluated, issued) ==
    [positions |-> pos, orders |-> orders, raised |-> raised,
     evaluated |-> evaluated, issued |-> issued]

\* One iteration of the loop of line 170 on snapshot entry k, then the rest.
\* acc is the MonitorResult so far; evaluated lists the symbols whose price
\* was asked for, issued the symbols a forced exit was handed to
\* execute_trade for (with the branch that did it).
\* NextEntry with the try around the whole loop: a failure ends the pass
NextEntry_Abort(snapshot, k, failed) ==
    IF failed THEN Len(snapshot) + 1 ELSE k + 1

\* The try of line 171 is inside the for of line 170: after an entry, failed
\* or not, the loop goes on with the next one.
NextEntry(snapshot, k, failed) == k + 1

RECURSIVE MonitorFrom(_, _, _, _)
MonitorFrom(snapshot, envs, k, acc) ==
    IF k > Len(snapshot) THEN acc
    ELSE LET position == snapshot[k]
             symbol == position.symbol
             env == envs[k]
             seen == [acc EXCEPT !.evaluated = Append(@, symbol)]
         IN  IF env.intr = "before_order"
             THEN [acc EXCEPT !.raised = "KeyboardInterrupt"]
             ELSE IF env.ticker \in {Fail, None}   \* raises; None <= float: TypeError
             THEN MonitorFrom(snapshot, envs, NextEntry(snapshot, k, TRUE), seen)
             ELSE IF Trigger(position, env.ticker) = "none"
             THEN MonitorFrom(snapshot, envs, NextEntry(snapshot, k, FALSE), seen)
             ELSE LET r == execute_trade(acc.positions, symbol, ForcedExit,
                                [QuietEnv EXCEPT !.sell = env.sell, !.intr = env.intr])
                      after == [seen EXCEPT
                                  !.positions = r.positions,
                                  !.orders = @ \o r.orders,
                                  !.raised = r.raised,
                                  !.issued = Append(@, [symbol |-> symbol,
                                       branch |-> Trigger(position, env.ticker)])]
                  IN  IF r.raised # "none" THEN after
                      ELSE MonitorFrom(snapshot, envs,
                                       NextEntry(snapshot, k, r.logged = "failed"), after)

\* The answers one entry can get: the sell answer is drawn only when the
\* price asks for an exit.
MonitorEnvsFor(position) ==
    {e \in MonitorEnv :
        /\ (e.ticker = Unasked) = (e.intr = "before_order")
        /\ (e.sell = Unasked) =
              (e.ticker \in {Unasked, Fail, None} \/ Trigger(position, e.ticker) = "none")
        /\ e.sell \in {Unasked, Fail} => e.intr # "after_order"}
RECURSIVE MonitorEnvSeqs(_, _)
MonitorEnvSeqs(snapshot, k) ==
    IF k > Len(snapshot) THEN {<<>>}
    ELSE {<<e>> \o rest : e \in MonitorEnvsFor(snapshot[k]),
                          rest \in MonitorEnvSeqs(snapshot, k + 1)}

monitor_positions(pos, envs) ==
    MonitorFrom(pos, envs, 1, MonitorResult(pos, <<>>, "none", <<>>, <<>>))

\* ------------------------------------------------------------ make_payment
\* The payment call is a placeholder; whatever it raises is caught and
\* turned into False.
make_payment(outcome) == outcome # Fail

\* --------------------------------------------------------- fetch_market_data
\* Candle series the exchange may return: n candles, the last k of them
\* closing at q and the ones before at p.
Levels == {50, 100}
SeriesOf(sh) == [i \in 1..sh[1] |-> IF i > sh[1] - sh[2] THEN sh[4] ELSE sh[3]]
SeriesShapes ==
    {<<n, k, p, q>> : n \in (MinCandles - 2)..(MinCandles + MaxExtra),
                      k \in 0..2, p \in Levels, q \in Levels}
\* What the exchange call of line 63 does: raises ("fail"), returns no candle
\* ("none"), returns candles the indicator arithmetic raises on, such as
\* non-numeric closes ("malformed"), or returns the series of a shape.
NoShape == <<0, 0, 0, 0>>
FetchOutcomes ==
    {[kind |-> k, shape |-> NoShape] : k \in {"fail", "none", "malformed"}}
    \cup {[kind |-> "candles", shape |-> sh] : sh \in SeriesShapes}
\* The frame fetch_market_data returns: empty when the call raised or the
\* exchange sent no candle.
fetch_market_data(outcome) ==
    IF outcome.kind \in {"fail", "none"}
    THEN [kind |-> "empty", close |-> <<>>]
    ELSE [kind |-> outcome.kind, close |-> SeriesOf(outcome.shape)]

\* lines 209-210 on the series of every shape, computed once
SignalTable ==
    [sh \in SeriesShapes |-> generate_signals(calculate_indicators(SeriesOf(sh)))]

\* ------------------------------------------------------------------- state
VARIABLES
    pc,           \* where run() is: "gate", "symbols", "monitor", "sleep",
                  \* "error_sleep" (the sleep of line 230) or "stopped"
    idx,          \* position of the for loop of line 202 in trading_pairs
    positions,    \* self.positions
    stop_reason,  \* why run() ended: "none", "gate", "KeyboardInterrupt"
    visited,      \* the symbols the for loop has taken up in this cycle
    last,         \* the step run() took last: its inputs and what it did
    trial         \* one call of a function on its own: its input and result
                  \* (used by TrialSpec only; run() never touches it)

vars == <<pc, idx, positions, stop_reason, visited, last, trial>>

NoStep ==
    [op |-> "init", idx |-> 0, symbol |-> "", before |-> <<>>,
     fetched |-> "none", frame |-> "none", signal |-> NoSignal, executed |-> FALSE,
     env |-> QuietEnv, envs |-> <<>>, orders |-> <<>>, raised |-> "none",
     logged |-> "none", evaluated |-> <<>>, issued |-> <<>>]

\* A candle series for a call on its own: n candles, the first n-j-k closing
\* at p, the next j at q and the last k at r.
TrialLevels == {50, 100, 101}
TrialSeriesOf(sh) ==
    [i \in 1..sh[1] |-> IF i > sh[1] - sh[3] THEN sh[6]
                        ELSE IF i > sh[1] - sh[3] - sh[2] THEN sh[5]
                        ELSE sh[4]]
TrialShapes ==
    {<<n, j, k, p, q, r>> : n \in (MinCandles - 2)..(MinCandles + MaxExtra),
                            j \in 0..2, k \in 0..2,
                            p \in TrialLevels, q \in TrialLevels, r \in TrialLevels}

NoTrial ==
    [kind |-> "none", stage |-> "none", shape |-> <<>>, df |-> <<>>,
     signals |-> NoSignal, ledger |-> <<>>, envs |-> <<>>,
     result |-> MonitorResult(<<>>, <<>>, "none", <<>>, <<>>)]

Init ==
    /\ trial = NoTrial
    /\ pc = "gate"
    /\ idx = 1
    /\ positions = <<>>
    /\ stop_reason = "none"
    /\ visited = <<>>
    /\ last = NoStep

\* lines 197-199: pay for the cycle, stop when the payment is refused
\* GateNext with the refusal ignored
GateNext_Ignore(paid) == "symbols"

GateNext(paid) == IF paid THEN "symbols" ELSE "stopped"
Gate ==
    /\ pc = "gate"
    /\ UNCHANGED trial
    /\ \E outcome \in {Fail, 0} :
         LET paid == make_payment(outcome)
         IN  /\ pc' = GateNext(paid)
             /\ stop_reason' = IF GateNext(paid) = "stopped" THEN "gate" ELSE stop_reason
             /\ last' = [NoStep EXCEPT !.op = "gate", !.before = positions,
                                       !.logged = IF paid THEN "paid" ELSE "failed"]
    /\ idx' = 1
    /\ visited' = <<>>
    /\ UNCHANGED positions

\* Where the for loop of line 202 goes after the iteration on entry i
AfterSymbol(i) == IF i < Len(trading_pairs) THEN "symbols" ELSE "monitor"

\* OnEmptyFrame with break in place of continue
OnEmptyFrame_Break(i) == [pc |-> "monitor", idx |-> i + 1]

\* lines 204-206: what an empty frame does to the iteration
OnEmptyFrame(i) == [pc |-> AfterSymbol(i), idx |-> i + 1]

\* The answers execute_trade can get for a signal of the generator
EnvsFor(pos, symbol, signal) ==
    IF signal.buy THEN BuyEnvs
    ELSE IF signal.sell /\ Has(pos, symbol) THEN SellEnvs
    ELSE {QuietEnv}

\* lines 202-214: one iteration of the for loop, on trading_pairs[idx]
ProcessSymbol ==
    /\ pc = "symbols"
    /\ UNCHANGED trial
    /\ LET symbol == trading_pairs[idx]
       IN
       \E outcome \in FetchOutcomes :
         LET df == fetch_market_data(outcome)
             step == [NoStep EXCEPT !.op = "process", !.idx = idx,
                                    !.symbol = symbol, !.before = positions,
                                    !.fetched = outcome.kind]
         IN
         /\ visited' = Append(visited, symbol)
         /\ IF df.kind = "empty"
            THEN /\ pc' = OnEmptyFrame(idx).pc
                 /\ idx' = OnEmptyFrame(idx).idx
                 /\ last' = [step EXCEPT !.frame = "empty"]
                 /\ UNCHANGED <<positions, stop_reason>>
            ELSE IF df.kind = "malformed"
            THEN \* calculate_indicators raises; caught at line 227
                 /\ pc' = "error_sleep"
                 /\ last' = [step EXCEPT !.frame = "malformed", !.raised = "Exception"]
                 /\ UNCHANGED <<idx, positions, stop_reason>>
            ELSE
              LET signals == SignalTable[outcome.shape]
              IN  IF signals.buy \/ signals.sell
                  THEN \E env \in EnvsFor(positions, symbol, signals) :
                         LET r == execute_trade(positions, symbol, signals, env)
                         IN  /\ positions' = r.positions
                             /\ last' = [step EXCEPT
                                           !.frame = "candles", !.signal = signals,
                                           !.executed = TRUE, !.env = env,
                                           !.orders = r.orders, !.raised = r.raised,
                                           !.logged = r.logged]
                             /\ IF r.raised = "KeyboardInterrupt"
                                THEN /\ pc' = "stopped"
                                     /\ stop_reason' = "KeyboardInterrupt"
                                     /\ UNCHANGED idx
                                ELSE /\ pc' = AfterSymbol(idx)
                                     /\ idx' = idx + 1
                                     /\ UNCHANGED stop_reason
                  ELSE /\ pc' = AfterSymbol(idx)
                       /\ idx' = idx + 1
                       /\ last' = [step EXCEPT !.frame = "candles", !.signal = signals]
                       /\ UNCHANGED <<positions, stop_reason>>

\* line 217: one pass of monitor_positions over the ledger
Monitor ==
    /\ pc = "monitor"
    /\ UNCHANGED trial
    /\ \E envs \in MonitorEnvSeqs(positions, 1) :
         LET r == monitor_positions(positions, envs)
         IN  /\ positions' = r.positions
             /\ last' = [NoStep EXCEPT
                           !.op = "monitor", !.before = positions, !.envs = envs,
                           !.orders = r.orders, !.raised = r.raised,
                           !.evaluated = r.evaluated, !.issued = r.issued]
             /\ IF r.raised = "KeyboardInterrupt"
                THEN pc' = "stopped" /\ stop_reason' = "KeyboardInterrupt"
                ELSE pc' = "sleep" /\ UNCHANGED stop_reason
    /\ UNCHANGED <<idx, visited>>

\* line 222: the delay between cycles
Sleep ==
    /\ pc = "sleep"
    /\ UNCHANGED trial
    /\ pc' = "gate"
    /\ last' = [NoStep EXCEPT !.op = "sleep", !.before = positions]
    /\ UNCHANGED <<idx, positions, stop_reason, visited>>

\* AfterError with the handler leaving the loop
AfterError_Crash == "stopped"

\* lines 227-230: the handler of an exception that reached the loop: sleep,
\* then the while loop begins its next cycle
AfterError == "gate"
ErrorSleep ==
    /\ pc = "error_sleep"
    /\ UNCHANGED trial
    /\ pc' = AfterError
    /\ stop_reason' = IF AfterError = "stopped" THEN "Exception" ELSE stop_reason
    /\ last' = [NoStep EXCEPT !.op = "error_sleep", !.before = positions]
    /\ UNCHANGED <<idx, positions, visited>>

\* A KeyboardInterrupt that arrives between two calls, or during a sleep:
\* caught at line 224, or, during the sleep of line 230, leaving run()
\* uncaught.  Either way the loop ends.
Interrupt ==
    /\ pc \in {"gate", "symbols", "monitor", "sleep", "error_sleep"}
    /\ UNCHANGED trial
    /\ pc' = "stopped"
    /\ stop_reason' = "KeyboardInterrupt"
    /\ last' = [NoStep EXCEPT !.op = "interrupt", !.before = positions,
                              !.raised = "KeyboardInterrupt"]
    /\ UNCHANGED <<idx, positions, visited>>

Next == Gate \/ ProcessSymbol \/ Monitor \/ Sleep \/ ErrorSleep \/ Interrupt

Spec == Init /\ [][Next]_vars

\* ------------------------------------------------- functions on their own
\* calculate_indicators, generate_signals and monitor_positions called on
\* their own, each on an input drawn at the start: a fetched candle series,
\* or a ledger.  run() does not move.
TrialSeriesInit ==
    \E sh \in TrialShapes :
        trial = [NoTrial EXCEPT !.kind = "series", !.stage = "input", !.shape = sh]

\* line 209 on the series
Annotate ==
    /\ trial.kind = "series" /\ trial.stage = "input"
    /\ trial' = [trial EXCEPT !.stage = "annotated",
                     !.df = calculate_indicators(TrialSeriesOf(trial.shape))]
    /\ UNCHANGED <<pc, idx, positions, stop_reason, visited, last>>

\* line 210 on the annotated frame
Signal ==
    /\ trial.kind = "series" /\ trial.stage = "annotated"
    /\ trial' = [trial EXCEPT !.stage = "done",
                     !.signals = generate_signals(trial.df)]
    /\ UNCHANGED <<pc, idx, positions, stop_reason, visited, last>>

\* Ledgers for a monitoring pass on its own: one or two positions, each as
\* execute_trade stores it for the buy signal of a series whose last close
\* is c, bought at 100.  A last close of 0 (a candle reported without a
\* price) gives stop_loss = take_profit = 0.
TrialCloses == {0, 100}
BuySignalAt(c) ==
    [buy |-> TRUE, sell |-> FALSE,
     stop_loss |-> c * StopLossPct, take_profit |-> c * TakeProfitPct]
TrialPosition(symbol, c) ==
    NewPosition(symbol, 100, BuySignalAt(c), Rat(1000 * RiskPercent * Leverage, 100 * 100))
TrialLedgers ==
    {<<TrialPosition(s, c)>> : s \in {trading_pairs[1], trading_pairs[2]},
                               c \in TrialCloses}
    \cup {<<TrialPosition(trading_pairs[a], c), TrialPosition(trading_pairs[3 - a], d)>> :
              a \in 1..2, c \in TrialCloses, d \in TrialCloses}
\* The answers an entry can get in such a pass; a ticker may also say 0.
TrialEnvsFor(position) ==
    {e \in [ticker : {Unasked, Fail, None, 0} \cup TickerPrices,
            sell : SellOutcomes \cup {Unasked}, intr : IntrPoints] :
        /\ (e.ticker = Unasked) = (e.intr = "before_order")
        /\ (e.sell = Unasked) =
              (e.ticker \in {Unasked, Fail, None} \/ Trigger(position, e.ticker) = "none")
        /\ e.sell \in {Unasked, Fail} => e.intr # "after_order"}
RECURSIVE TrialEnvSeqs(_, _)
TrialEnvSeqs(snapshot, k) ==
    IF k > Len(snapshot) THEN {<<>>}
    ELSE {<<e>> \o rest : e \in TrialEnvsFor(snapshot[k]),
                          rest \in TrialEnvSeqs(snapshot, k + 1)}

TrialLedgerInit ==
    \E l \in TrialLedgers :
        trial = [NoTrial EXCEPT !.kind = "ledger", !.stage = "input", !.ledger = l]

\* monitor_positions on the ledger
MonitorTrial ==
    /\ trial.kind = "ledger" /\ trial.stage = "input"
    /\ \E envs \in TrialEnvSeqs(trial.ledger, 1) :
         trial' = [trial EXCEPT !.stage = "done", !.envs = envs,
                       !.result = monitor_positions(trial.ledger, envs)]
    /\ UNCHANGED <<pc, idx, positions, stop_reason, visited, last>>

TrialInit ==
    /\ pc = "trial"
    /\ idx = 1
    /\ positions = <<>>
    /\ stop_reason = "none"
    /\ visited = <<>>
    /\ last = NoStep
    /\ TrialSeriesInit \/ TrialLedgerInit

TrialNext == Annotate \/ Signal \/ MonitorTrial

TrialSpec == TrialInit /\ [][TrialNext]_vars

\* ================================================================== claims
\* Shorthands over the step recorded in last.
ProcessStep == last.op = "process"
MonitorStep == last.op = "monitor"
\* a real price, as opposed to a call that raised or answered None
IsPrice(x) == x \notin {Unasked, Fail, None}
\* the orders of the last step that sell the whole of position p
SoldWhole(p) ==
    \E i \in 1..Len(last.orders) :
        last.orders[i] = [side |-> "sell", symbol |-> p.symbol, amount |-> p.size]
\* the price is at or beyond one of the two levels of a long position
AtOrBeyondLevels(p, price) ==
    price * 100 <= p.stop_loss \/ price * 100 >= p.take_profit
WasIssued(symbol) ==
    \E i \in 1..Len(last.issued) : last.issued[i].symbol = symbol

\* C1: when a monitoring pass finds the fresh price of an open long position
\* at or below its stop_loss, or at or above its take_profit, and the ticker
\* call and the market sell answer with a price, then at the end of the pass
\* a sell order for the position's size was placed and the symbol is gone
\* from the ledger.
C1_RiskExitClosesPosition ==
    (MonitorStep /\ last.raised = "none") =>
        \A k \in 1..Len(last.before) :
            LET p == last.before[k]
                env == last.envs[k]
            IN  (/\ p.side = "long"
                 /\ IsPrice(env.ticker)
                 /\ AtOrBeyondLevels(p, env.ticker)
                 /\ IsPrice(env.sell))
                => (SoldWhole(p) /\ ~Has(positions, p.symbol))

\* C2: a buy signal executed for a symbol that already has a position places
\* no order and leaves the ledger as it was.
C2_NoSecondOpen ==
    (ProcessStep /\ last.executed /\ last.signal.buy /\ Has(last.before, last.symbol))
        => (last.orders = <<>> /\ positions = last.before)

\* C3: when execute_trade runs a sell signal for a symbol with a position and
\* the market sell returns, the symbol is out of the ledger when the call
\* ends, whether or not the order result carries a usable price.
C3_FillRemovesPosition ==
    (/\ ProcessStep /\ last.executed /\ last.signal.sell
     /\ Has(last.before, last.symbol)
     /\ last.env.sell \notin {Unasked, Fail}
     /\ last.raised = "none")
        => ~Has(positions, last.symbol)

\* C4: when a call made for an entry (balance, ticker, market buy) fails, or
\* the market sell of an exit fails, execute_trade reports the failure,
\* raises nothing to its caller and leaves the ledger as it was.
EntryCallFailed(env) ==
    \/ env.balance = Fail
    \/ env.ticker \in {Fail, None, 0}
    \/ env.buy = Fail
C4_NoPhantomPositions ==
    (/\ ProcessStep /\ last.executed
     /\ \/ last.signal.buy /\ EntryCallFailed(last.env)
        \/ ~last.signal.buy /\ last.env.sell = Fail)
        => /\ last.logged = "failed"
           /\ last.raised = "none"
           /\ last.orders = <<>>
           /\ positions = last.before
C4_Witness ==
    /\ ProcessStep /\ last.executed /\ last.signal.buy
    /\ IsPrice(last.env.ticker) /\ last.env.buy = Fail
    /\ Has(last.before, last.symbol)
    /\ positions = last.before

\* C5: for every long position whose price a monitoring pass obtained, a
\* forced exit is issued exactly when price <= stop_loss or price >=
\* take_profit, both ends included; when no price asks for an exit the pass
\* places no order and leaves the ledger as it was.
C5_TriggerCondition ==
    MonitorStep =>
        /\ \A k \in 1..Len(last.evaluated) :
               LET p == last.before[k]
                   env == last.envs[k]
               IN  (p.side = "long" /\ IsPrice(env.ticker)) =>
                       (WasIssued(p.symbol) <=> AtOrBeyondLevels(p, env.ticker))
        /\ (\A k \in 1..Len(last.evaluated) :
               IsPrice(last.envs[k].ticker) =>
                   ~AtOrBeyondLevels(last.before[k], last.envs[k].ticker))
             => (last.issued = <<>> /\ last.orders = <<>> /\ positions = last.before)
C5_Witness ==
    /\ MonitorStep /\ Len(last.before) = 2 /\ Len(last.evaluated) = 2
    /\ last.envs[1].ticker * 100 = last.before[1].stop_loss
    /\ IsPrice(last.envs[2].ticker)
    /\ last.envs[2].ticker * 100 < last.before[2].take_profit
    /\ last.envs[2].ticker * 100 > last.before[2].stop_loss
    /\ WasIssued(last.before[1].symbol) /\ ~WasIssued(last.before[2].symbol)

\* C6: when the payment gate answers false or fails, the loop stops, and
\* after that no step is taken: the gate step stays the last one, so no
\* data is fetched, no order placed, no monitoring run and the ledger stays.
C6_GateFailureIsFatal ==
    /\ (last.op = "gate" /\ last.logged = "failed")
          => (pc = "stopped" /\ stop_reason = "gate")
    /\ stop_reason = "gate"
          => (pc = "stopped" /\ last.op = "gate" /\ last.orders = <<>>
              /\ positions = last.before)
C6_Witness ==
    /\ pc = "stopped" /\ stop_reason = "gate"
    /\ Len(positions) > 0

\* C8: an empty frame for one symbol skips that symbol only: the ledger is
\* untouched, no order is placed and the loop goes on with the next symbol,
\* or with monitoring after the last one; a cycle that reaches monitoring
\* has taken up every configured symbol, and one that reaches the sleep has
\* run the monitoring pass.
C8_EmptyFrameSkipsOneSymbol ==
    /\ (ProcessStep /\ last.fetched \in {"fail", "none"}) =>
          /\ positions = last.before /\ last.orders = <<>> /\ ~last.executed
          /\ IF last.idx < Len(trading_pairs)
             THEN pc = "symbols" /\ idx = last.idx + 1
             ELSE pc = "monitor"
    /\ pc \in {"monitor", "sleep"} =>
          /\ visited = trading_pairs
    /\ pc = "sleep" => MonitorStep
C8_Witness ==
    /\ ProcessStep /\ last.fetched = "fail" /\ last.idx = 1
    /\ pc = "symbols" /\ idx = 2 /\ visited = <<trading_pairs[1]>>
    /\ Len(positions) > 0

\* C9: a monitoring pass that no KeyboardInterrupt cuts short asks for the
\* price of every position of the ledger, in order, whatever fails for any
\* of them, and raises nothing: the loop goes on to its sleep.
C9_MonitorIsolatesFailures ==
    MonitorStep =>
        /\ last.raised \in {"none", "KeyboardInterrupt"}
        /\ last.raised = "none" =>
              /\ last.evaluated = [k \in 1..Len(last.before) |-> last.before[k].symbol]
              /\ pc = "sleep"
C9_Witness ==
    /\ MonitorStep /\ last.raised = "none" /\ Len(last.before) = 2
    /\ WasIssued(last.before[1].symbol) /\ Has(positions, last.before[1].symbol)
    /\ last.envs[2].ticker = Fail
    /\ Len(last.evaluated) = 2

\* C10: the loop never stops right after a step in which an order was
\* filled without the ledger showing it: every buy order of the last step
\* has its ledger entry, and every sell order of the last step has none.
C10_StopOnlyBetweenCycles ==
    pc = "stopped" =>
        \A i \in 1..Len(last.orders) :
            LET o == last.orders[i]
            IN  IF o.side = "buy"
                THEN Has(positions, o.symbol) /\ Get(positions, o.symbol).size = o.amount
                ELSE ~Has(positions, o.symbol)

\* ------------------------------------------------------------------ fairness
\* time.sleep(60) returns: the sleep of the exception handler ends unless a
\* KeyboardInterrupt ends the loop first.
FairSpec == Spec /\ WF_vars(ErrorSleep)

\* C7: an exception that reaches the loop is caught there and the loop
\* sleeps and begins a new cycle; the loop ends only by a KeyboardInterrupt
\* or a refusal of the payment gate.
C7_LoopSurvivesBadCycle ==
    /\ [](pc = "stopped" => stop_reason \in {"KeyboardInterrupt", "gate"})
    /\ [](last.raised = "Exception" => pc = "error_sleep")
    /\ [](last.op = "error_sleep" => pc = "gate")
    /\ (pc = "error_sleep" ~> (pc = "gate" \/ stop_reason = "KeyboardInterrupt"))
C7_Witness ==
    /\ last.op = "error_sleep" /\ pc = "gate"
    /\ Len(positions) > 0

\* ----------------------------------------------- claims on single calls
SeriesDone == trial.kind = "series" /\ trial.stage = "done"
LedgerDone == trial.kind = "ledger" /\ trial.stage = "done"
\* the signal that is neither buy nor sell
IsNoOp(sig) ==
    sig = [buy |-> FALSE, sell |-> FALSE, stop_loss |-> None, take_profit |-> None]
\* sums of the closes, and of the falls between closes, of rows lo..hi
RECURSIVE CloseSum(_, _, _)
CloseSum(df, lo, hi) ==
    IF lo > hi THEN 0 ELSE df[lo].close + CloseSum(df, lo + 1, hi)
RECURSIVE FallSum(_, _, _)
FallSum(df, lo, hi) ==
    IF lo > hi THEN 0
    ELSE (IF lo > 1 /\ df[lo].close < df[lo - 1].close
          THEN df[lo - 1].close - df[lo].close ELSE 0) + FallSum(df, lo + 1, hi)

\* C11: when sma_20, sma_50 or rsi of the last or of the previous annotated
\* candle is undefined, generate_signals returns the no-op signal.
SomeIndicatorUndefined(row) ==
    IsNaN(row.sma_20) \/ IsNaN(row.sma_50) \/ IsNaN(row.rsi)
C11_UndefinedForcesNoSignal ==
    (/\ SeriesDone
     /\ \/ SomeIndicatorUndefined(trial.df[Len(trial.df)])
        \/ SomeIndicatorUndefined(trial.df[Len(trial.df) - 1]))
        => IsNoOp(trial.signals)

\* C12: for a series of at least 50 candles whose last two rows have both
\* SMAs, generate_signals returns buy with stop_loss = 0.98 x close and
\* take_profit = 1.03 x close exactly when the previous fast SMA <= the
\* previous slow SMA and the fast SMA > the slow SMA now; sell without
\* levels exactly when previous fast >= previous slow and fast < slow now;
\* and the no-op signal otherwise.  (Means are compared as window sums
\* cross-multiplied by the window lengths; levels are in hundredths.)
C12_CrossoverClassification ==
    (SeriesDone /\ Len(trial.df) > SlowWindow) =>
        LET df == trial.df
            n == Len(df)
            fast == CloseSum(df, n - FastWindow + 1, n) * SlowWindow
            slow == CloseSum(df, n - SlowWindow + 1, n) * FastWindow
            prev_fast == CloseSum(df, n - FastWindow, n - 1) * SlowWindow
            prev_slow == CloseSum(df, n - SlowWindow, n - 1) * FastWindow
        IN  trial.signals =
              IF prev_fast <= prev_slow /\ fast > slow
              THEN [buy |-> TRUE, sell |-> FALSE,
                    stop_loss |-> df[n].close * 98, take_profit |-> df[n].close * 103]
              ELSE IF prev_fast >= prev_slow /\ fast < slow
              THEN [buy |-> FALSE, sell |-> TRUE,
                    stop_loss |-> None, take_profit |-> None]
              ELSE [buy |-> FALSE, sell |-> FALSE,
                    stop_loss |-> None, take_profit |-> None]
\* a buy on a series that was flat up to the previous candle (fast = slow)
C12_Witness ==
    /\ SeriesDone /\ Len(trial.df) > SlowWindow
    /\ trial.shape[2] = 0 /\ trial.shape[3] = 1
    /\ trial.shape[4] < trial.shape[6]
    /\ trial.signals.buy
    /\ trial.signals.stop_loss = trial.shape[6] * 98

\* C13: for a series of fewer than 50 candles generate_signals returns the
\* no-op signal, whatever the series looks like.
C13_InsufficientHistory ==
    (SeriesDone /\ Len(trial.df) < 50) => IsNoOp(trial.signals)
\* 49 candles, the last one jumping up
C13_Witness ==
    /\ SeriesDone /\ Len(trial.df) = 49
    /\ trial.shape[3] = 1 /\ trial.shape[5] < trial.shape[6]
    /\ IsNoOp(trial.signals)

\* C14: at every row whose trailing 14 falls sum to 0, rsi is 100.
C14_ZeroLossRsiIs100 ==
    SeriesDone =>
        \A i \in RsiWindow..Len(trial.df) :
            FallSum(trial.df, i - RsiWindow + 1, i) = 0 =>
                (~IsNaN(trial.df[i].rsi)
                 /\ trial.df[i].rsi.num = 100 * trial.df[i].rsi.den)

\* C18: generate_signals never returns buy and sell together, and
\* stop_loss and take_profit are set exactly when buy is.
C18_SignalsExclusive ==
    SeriesDone =>
        /\ ~(trial.signals.buy /\ trial.signals.sell)
        /\ trial.signals.buy <=> trial.signals.stop_loss # None
        /\ trial.signals.buy <=> trial.signals.take_profit # None
\* a bearish crossover: sell, no levels
C18_Witness ==
    /\ SeriesDone /\ Len(trial.df) > SlowWindow
    /\ trial.signals.sell /\ ~trial.signals.buy
    /\ trial.signals.stop_loss = None

\* C16: in one monitoring pass each position is handed to execute_trade for
\* a forced exit at most once and gets at most one sell order, and when the
\* price meets the stop-loss and the take-profit condition at once, the
\* exit is the stop-loss one.
TimesIssued(symbol) ==
    Cardinality({i \in 1..Len(trial.result.issued) :
                    trial.result.issued[i].symbol = symbol})
TimesSold(symbol) ==
    Cardinality({i \in 1..Len(trial.result.orders) :
                    /\ trial.result.orders[i].symbol = symbol
                    /\ trial.result.orders[i].side = "sell"})
BothLevelsMet(p, price) ==
    price * 100 <= p.stop_loss /\ price * 100 >= p.take_profit
C16_SingleShotStopFirst ==
    LedgerDone =>
        \A k \in 1..Len(trial.ledger) :
            LET p == trial.ledger[k]
                price == trial.envs[k].ticker
            IN  /\ TimesIssued(p.symbol) <= 1
                /\ TimesSold(p.symbol) <= 1
                /\ (/\ k <= Len(trial.result.evaluated)
                    /\ IsPrice(price) /\ BothLevelsMet(p, price)) =>
                      /\ TimesIssued(p.symbol) = 1
                      /\ \A i \in 1..Len(trial.result.issued) :
                            trial.result.issued[i].symbol = p.symbol =>
                                trial.result.issued[i].branch = "stop_loss"
C16_Witness ==
    /\ LedgerDone /\ Len(trial.ledger) = 2
    /\ IsPrice(trial.envs[2].ticker)
    /\ BothLevelsMet(trial.ledger[2], trial.envs[2].ticker)
    /\ Len(trial.result.evaluated) = 2
    /\ TimesIssued(trial.ledger[2].symbol) = 1

\* ------------------------------------------------ claims on the run loop
\* C15: a sell signal executed for a symbol without a position places no
\* order, raises and logs nothing, and leaves the whole ledger as it was.
C15_ExitWithoutPositionIsNoOp ==
    (/\ ProcessStep /\ last.executed
     /\ last.signal.sell /\ ~last.signal.buy
     /\ ~Has(last.before, last.symbol))
        => /\ last.orders = <<>>
           /\ last.raised = "none"
           /\ last.logged = "none"
           /\ positions = last.before
C15_Witness ==
    /\ ProcessStep /\ last.executed /\ last.signal.sell
    /\ ~Has(last.before, last.symbol)
    /\ Len(last.before) = 1
    /\ positions = last.before

\* C17 as claimed: every position of the ledger has
\* stop_loss < entry_price < take_profit.
C17_BandBracketsEntry ==
    \A k \in 1..Len(positions) :
        /\ positions[k].stop_loss < positions[k].entry_price * 100
        /\ positions[k].entry_price * 100 < positions[k].take_profit
\* C17 as amended: the two levels of every position come from one close c,
\* stop_loss = 0.98 x c and take_profit = 1.03 x c, so stop_loss <
\* take_profit when c > 0; entry_price is the ticker price of the entry,
\* not 0, and need not lie between them.
C17_BandFromOneClose ==
    \A k \in 1..Len(positions) :
        /\ positions[k].stop_loss * 103 = positions[k].take_profit * 98
        /\ positions[k].stop_loss > 0 => positions[k].stop_loss < positions[k].take_profit
        /\ positions[k].entry_price # 0
\* a position bought below its own stop level
C17_Witness ==
    /\ Len(positions) = 2
    /\ positions[1].entry_price * 100 < positions[1].stop_loss
    /\ positions[2].entry_price * 100 >= positions[2].take_profit

\* C19: the keys of the ledger are configured trading pairs and every
\* position is long; a forced exit is always one of a long position (the
\* short-side tests of monitor_positions never decide).
C19_LedgerLongAndConfigured ==
    /\ \A k \in 1..Len(positions) :
          /\ \E i \in 1..Len(trading_pairs) : positions[k].symbol = trading_pairs[i]
          /\ positions[k].side = "long"
    /\ MonitorStep =>
          \A i \in 1..Len(last.issued) :
              \E k \in 1..Len(last.before) :
                  /\ last.before[k].symbol = last.issued[i].symbol
                  /\ last.before[k].side = "long"
                  /\ IsPrice(last.envs[k].ticker)
                  /\ AtOrBeyondLevels(last.before[k], last.envs[k].ticker)
C19_Witness ==
    /\ MonitorStep /\ Len(positions) = 2
    /\ Len(last.issued) = 2

====
